---- MODULE Spec2Model ----
(***************************************************************************)
(* Radio Thermostat climate entity                                         *)
(* (homeassistant/components/radiotherm/climate.py).                       *)
(*                                                                         *)
(* The entity keeps a decoded view (the _attr_* fields and _hold_set) of   *)
(* the coordinator's latest snapshot, and turns service calls into device  *)
(* field writes that run in an executor job while the event loop stays     *)
(* free to deliver coordinator updates.                                    *)
(*                                                                         *)
(* Temperatures and humidities are integers in hundredths of a unit, so    *)
(* 7025 is 70.25.  An optional value is None (the empty tuple) or          *)
(* Some(v) (the one-element tuple).                                        *)
(***************************************************************************)
EXTENDS Integers, Sequences, FiniteSets, TLC

VARIABLES
    coordinator_data,   \* coordinator.data: the latest snapshot of the device
    self,       \* the entity: _is_model_ct80, _hold_temp, _hold_set, _attr_*
    call,       \* per caller: the service call it has issued and how far it got
    time_job    \* the set_time job async_added_to_hass schedules

vars == <<coordinator_data, self, call, time_job>>

-----------------------------------------------------------------------------
(* Bounds of the model *)

\* Snapshots carry sensor readings number 0..MaxReading.
MaxReading == 1

\* set_temperature is called with temperature number 0..MaxTemp.
MaxTemp == 1

\* Each caller issues at most MaxCalls service calls.
MaxCalls == 1

-----------------------------------------------------------------------------
(* Optional values *)

None == <<>>

Some(v) == <<v>>

-----------------------------------------------------------------------------
(* Module constants, lines 54-97 *)

PRESET_MODES == {"home", "alternate", "away", "holiday"}

OPERATION_LIST == {"auto", "cool", "heat", "off"}

CT30_FAN_OPERATION_LIST == {"on", "auto"}

CT80_FAN_OPERATION_LIST == {"on", "circulate", "auto"}

CODE_TO_TEMP_MODE == (0 :> "off" @@ 1 :> "heat" @@ 2 :> "cool" @@ 3 :> "auto")

\* {v: k for k, v in table.items()}
Inverted(table) ==
    [v \in {table[k] : k \in DOMAIN table} |->
        CHOOSE k \in DOMAIN table : table[k] = v]

TEMP_MODE_TO_CODE == Inverted(CODE_TO_TEMP_MODE)

CODE_TO_FAN_MODE == (0 :> "auto" @@ 1 :> "circulate" @@ 2 :> "on")

FAN_MODE_TO_CODE == Inverted(CODE_TO_FAN_MODE)

CODE_TO_TEMP_STATE == (0 :> "idle" @@ 1 :> "heating" @@ 2 :> "cooling")

CODE_TO_FAN_STATE == (0 :> "off" @@ 1 :> "on")

PRESET_MODE_TO_CODE ==
    ("home" :> 0 @@ "alternate" :> 1 @@ "away" :> 2 @@ "holiday" :> 3)

CODE_TO_PRESET_MODE == Inverted(PRESET_MODE_TO_CODE)

CODE_TO_HOLD_STATE == (0 :> FALSE @@ 1 :> TRUE)

\* PARALLEL_UPDATES set to two.
PARALLEL_UPDATES_Two == 1 + 1

PARALLEL_UPDATES == 1

-----------------------------------------------------------------------------
(* round_temp, lines 100-106 *)

\* Python's round() of the rational n/d: to the nearest integer, a tie to
\* the even one.
PyRound(n, d) ==
    LET q == n \div d
        r == n % d
    IN  IF 2 * r < d THEN q
        ELSE IF 2 * r > d THEN q + 1
        ELSE IF q % 2 = 0 THEN q ELSE q + 1

\* round(temperature * 2.0) / 2.0, on hundredths
round_temp(temperature) == (PyRound(temperature * 2, 100) * 100) \div 2

-----------------------------------------------------------------------------
(* Snapshots: coordinator.data, a RadioThermUpdate *)

\* A code no table knows: the tables hold the codes from 0 up, four at most.
BadCode == Cardinality(DOMAIN CODE_TO_TEMP_MODE)

\* Reading k of the sensors and setpoints of the device.
Reading(k) ==
    [temp |-> 6500 + 100 * k, humidity |-> 3000 + 1000 * k, fstate |-> k % 2,
     t_cool |-> 7500 + 50 * k, t_heat |-> 6800 + 50 * k,
     program_mode |-> (2 * k) % 4]

Snapshot(k, tmode, tstate, fmode, hold) ==
    [temp |-> Reading(k).temp, humidity |-> Reading(k).humidity,
     fstate |-> Reading(k).fstate, t_cool |-> Reading(k).t_cool,
     t_heat |-> Reading(k).t_heat, program_mode |-> Reading(k).program_mode,
     tmode |-> tmode, tstate |-> tstate, fmode |-> fmode, hold |-> hold]

\* The snapshots whose every code is in its table.
ValidSnapshots ==
    {Snapshot(k, tmode, tstate, fmode, hold) :
        k \in 0..MaxReading, tmode \in DOMAIN CODE_TO_TEMP_MODE,
        tstate \in DOMAIN CODE_TO_TEMP_STATE, fmode \in DOMAIN CODE_TO_FAN_MODE,
        hold \in DOMAIN CODE_TO_HOLD_STATE}

CodeFields == {"tmode", "tstate", "fmode", "fstate", "hold", "program_mode"}

\* Snapshots with one code outside its table.
InvalidSnapshots ==
    {[Snapshot(k, 3 - (k % 2), 1 + (k % 2), 2 - (k % 3), k % 2) EXCEPT ![f] = BadCode] :
        k \in 0..MaxReading, f \in CodeFields}

Snapshots == ValidSnapshots \cup InvalidSnapshots

\* The valid snapshots of reading 0 with the fan programmed auto: they differ
\* in tmode, tstate and hold.
ModeSnapshots == {data \in ValidSnapshots : data.temp = Reading(0).temp /\ data.fmode = 0}

\* Those of them in mode heat or auto, idle or heating.
HeatSnapshots == {data \in ModeSnapshots : data.tmode \in {1, 3} /\ data.tstate \in {0, 1}}

-----------------------------------------------------------------------------
(* _process_data, lines 231-261 *)

\* The entity after the statements of _process_data that ran, and whether
\* they all ran (a table lookup of an unknown code raises KeyError and the
\* statements before it have taken effect).
Raised(s) == [self |-> s, ok |-> FALSE]

Returned(s) == [self |-> s, ok |-> TRUE]

\* ProcessTarget that, in auto and idle, takes the cooling setpoint.
ProcessTarget_IdleCool(s, data) ==
    IF s.hvac_mode = "cool" \/ s.hvac_mode = "auto"
    THEN [s EXCEPT !.target_temperature =
            IF s.hvac_action = Some("heating") THEN Some(data.t_heat)
            ELSE Some(data.t_cool)]
    ELSE IF s.hvac_mode = "heat"
    THEN [s EXCEPT !.target_temperature = Some(data.t_heat)]
    ELSE s

\* ProcessTarget with an else branch that clears the target.
ProcessTarget_Clearing(s, data) ==
    IF s.hvac_mode = "cool" \/ (s.hvac_mode = "auto" /\ s.hvac_action = Some("cooling"))
    THEN [s EXCEPT !.target_temperature = Some(data.t_cool)]
    ELSE IF s.hvac_mode = "heat"
            \/ (s.hvac_mode = "auto" /\ s.hvac_action = Some("heating"))
    THEN [s EXCEPT !.target_temperature = Some(data.t_heat)]
    ELSE [s EXCEPT !.target_temperature = None]

\* ProcessTarget with the two setpoints swapped in auto.
ProcessTarget_AutoSwapped(s, data) ==
    IF s.hvac_mode = "cool" \/ (s.hvac_mode = "auto" /\ s.hvac_action = Some("heating"))
    THEN [s EXCEPT !.target_temperature = Some(data.t_cool)]
    ELSE IF s.hvac_mode = "heat"
            \/ (s.hvac_mode = "auto" /\ s.hvac_action = Some("cooling"))
    THEN [s EXCEPT !.target_temperature = Some(data.t_heat)]
    ELSE s

\* lines 250-261
ProcessTarget(s, data) ==
    IF s.hvac_mode = "cool"
    THEN [s EXCEPT !.target_temperature = Some(data.t_cool)]
    ELSE IF s.hvac_mode = "heat"
    THEN [s EXCEPT !.target_temperature = Some(data.t_heat)]
    ELSE IF s.hvac_mode = "auto"
    THEN IF s.hvac_action = Some("cooling")
         THEN [s EXCEPT !.target_temperature = Some(data.t_cool)]
         ELSE IF s.hvac_action = Some("heating")
         THEN [s EXCEPT !.target_temperature = Some(data.t_heat)]
         ELSE s
    ELSE s

\* ProcessMode that leaves hvac_action alone when the mode is off.
ProcessMode_StaleAction(s, data) ==
    IF data.tmode \notin DOMAIN CODE_TO_TEMP_MODE THEN Raised(s)
    ELSE LET s1 == [s EXCEPT !.hvac_mode = CODE_TO_TEMP_MODE[data.tmode]]
         IN  IF data.hold \notin DOMAIN CODE_TO_HOLD_STATE THEN Raised(s1)
             ELSE LET s2 == [s1 EXCEPT !.hold_set = CODE_TO_HOLD_STATE[data.hold]]
                  IN  IF s2.hvac_mode = "off"
                      THEN Returned(ProcessTarget(s2, data))
                      ELSE IF data.tstate \notin DOMAIN CODE_TO_TEMP_STATE
                      THEN Raised(s2)
                      ELSE Returned(ProcessTarget(
                               [s2 EXCEPT !.hvac_action =
                                   Some(CODE_TO_TEMP_STATE[data.tstate])], data))

\* lines 244-261
ProcessMode(s, data) ==
    IF data.tmode \notin DOMAIN CODE_TO_TEMP_MODE THEN Raised(s)
    ELSE LET s1 == [s EXCEPT !.hvac_mode = CODE_TO_TEMP_MODE[data.tmode]]
         IN  IF data.hold \notin DOMAIN CODE_TO_HOLD_STATE THEN Raised(s1)
             ELSE LET s2 == [s1 EXCEPT !.hold_set = CODE_TO_HOLD_STATE[data.hold]]
                  IN  IF s2.hvac_mode = "off"
                      THEN Returned(ProcessTarget(
                               [s2 EXCEPT !.hvac_action = None], data))
                      ELSE IF data.tstate \notin DOMAIN CODE_TO_TEMP_STATE
                      THEN Raised(s2)
                      ELSE Returned(ProcessTarget(
                               [s2 EXCEPT !.hvac_action =
                                   Some(CODE_TO_TEMP_STATE[data.tstate])], data))

\* lines 239-243, then the rest
ProcessFan(s, data) ==
    LET s1 == [s EXCEPT !.current_temperature = Some(data.temp)]
    IN  IF data.fmode \notin DOMAIN CODE_TO_FAN_MODE THEN Raised(s1)
        ELSE LET s2 == [s1 EXCEPT !.fan_mode = Some(CODE_TO_FAN_MODE[data.fmode])]
             IN  IF data.fstate \notin DOMAIN CODE_TO_FAN_STATE THEN Raised(s2)
                 ELSE ProcessMode(
                          [s2 EXCEPT !.fan_action =
                              Some(CODE_TO_FAN_STATE[data.fstate])], data)

\* lines 234-237, then the rest
ProcessData(s, data) ==
    IF s.is_model_ct80
    THEN LET s1 == [s EXCEPT !.current_humidity = Some(data.humidity)]
         IN  IF data.program_mode \notin DOMAIN CODE_TO_PRESET_MODE
             THEN Raised(s1)
             ELSE ProcessFan(
                      [s1 EXCEPT !.preset_mode =
                          Some(CODE_TO_PRESET_MODE[data.program_mode])], data)
    ELSE ProcessFan(s, data)

-----------------------------------------------------------------------------
(* __init__, lines 171-196 *)

\* The entity before __init__ calls _process_data: the attributes are the
\* defaults of the entity classes, _hold_set is False.
Blank(is_model_ct80, hold_temp) ==
    [is_model_ct80 |-> is_model_ct80, hold_temp |-> hold_temp,
     hold_set |-> FALSE,
     current_humidity |-> None, preset_mode |-> None,
     current_temperature |-> None, fan_mode |-> None, fan_action |-> None,
     hvac_mode |-> None, hvac_action |-> None, target_temperature |-> None]

\* SupportedFeatures without the early return of line 193.
SupportedFeatures_Preset(s) == {"TARGET_TEMPERATURE", "FAN_MODE", "PRESET_MODE"}

\* _attr_supported_features, lines 187-195
SupportedFeatures(s) ==
    {"TARGET_TEMPERATURE", "FAN_MODE"}
        \cup (IF s.is_model_ct80 THEN {"PRESET_MODE"} ELSE {})

\* _attr_fan_modes, lines 191-194
FanModes(s) ==
    IF ~s.is_model_ct80 THEN CT30_FAN_OPERATION_LIST ELSE CT80_FAN_OPERATION_LIST

-----------------------------------------------------------------------------
(* Service calls *)

\* One caller more than the platform lets run at a time.
Callers == 1..(PARALLEL_UPDATES + 1)

\* The temperatures set_temperature is called with: 70.25, 70.50, ...
CmdTemps == {7025 + 25 * i : i \in 0..MaxTemp}

\* A service call: the handler and its arguments (temperature and
\* hold_changed of set_temperature, value of the three others).
Request(op, temperature, hold_changed, value) ==
    [op |-> op, temperature |-> temperature, hold_changed |-> hold_changed,
     value |-> value]

TemperatureRequests ==
    {Request("set_temperature", t, h, "") :
        t \in {Some(x) : x \in CmdTemps} \cup {None}, h \in BOOLEAN}

HvacModeRequests ==
    {Request("set_hvac_mode", None, FALSE, m) : m \in OPERATION_LIST}

FanModeRequests ==
    {Request("set_fan_mode", None, FALSE, f) :
        f \in DOMAIN FAN_MODE_TO_CODE \cup {"bogus"}}

PresetModeRequests ==
    {Request("set_preset_mode", None, FALSE, p) : p \in PRESET_MODES \cup {"bogus"}}

Requests ==
    TemperatureRequests \cup HvacModeRequests \cup FanModeRequests
        \cup PresetModeRequests

\* A caller between calls, having made n of them.
Idle(n) ==
    [pc |-> "idle", n |-> n, op |-> "none", temperature |-> None,
     hold_changed |-> FALSE, value |-> "", events |-> <<>>, result |-> "none"]

\* Call number n of a caller, as it reaches the handler.
New(n, r) ==
    [pc |-> "called", n |-> n, op |-> r.op, temperature |-> r.temperature,
     hold_changed |-> r.hold_changed, value |-> r.value, events |-> <<>>,
     result |-> "none"]

\* What a call leaves in its record, in order: a device write it started,
\* the end of that write, the assignment of the entity's attribute,
\* async_write_ha_state, coordinator.async_request_refresh.
Write(field, value) == [ev |-> "write", field |-> field, value |-> value]

Written == [ev |-> "written", field |-> "", value |-> None]

Failed == [ev |-> "failed", field |-> "", value |-> None]

StateSet == [ev |-> "state", field |-> "", value |-> None]

Publish == [ev |-> "publish", field |-> "", value |-> None]

Refresh == [ev |-> "refresh", field |-> "", value |-> None]

\* The device writes a call has started, in order.
Writes(rec) == SelectSeq(rec.events, LAMBDA e : e.ev = "write")

\* The calls that hold the platform's parallel-updates semaphore.
Holders == {c \in Callers : call[c].pc \in {"job", "write", "resume", "done"}}

\* The device writes that have started and not ended.
InFlight ==
    {c \in Callers : call[c].pc = "write"}
        \cup (IF time_job = "writing" THEN {0} ELSE {})

\* The host offers a service on an entity only if the entity supports it.
Offers(s, op) ==
    CASE op = "set_temperature" -> "TARGET_TEMPERATURE" \in SupportedFeatures(s)
      [] op = "set_fan_mode" -> "FAN_MODE" \in SupportedFeatures(s)
      [] op = "set_preset_mode" -> "PRESET_MODE" \in SupportedFeatures(s)
      [] OTHER -> TRUE

\* The entity __init__ builds from the coordinator's first snapshot.
Constructed(snapshots) ==
    /\ coordinator_data \in snapshots
    /\ \E is_model_ct80 \in BOOLEAN, hold_temp \in BOOLEAN :
            /\ ProcessData(Blank(is_model_ct80, hold_temp), coordinator_data).ok
            /\ self = ProcessData(Blank(is_model_ct80, hold_temp), coordinator_data).self
    /\ call = [c \in Callers |-> Idle(0)]
    /\ time_job = "none"

-----------------------------------------------------------------------------
(* async_added_to_hass, lines 203-211 *)

AddedToHass ==
    /\ time_job = "none"
    /\ time_job' = "scheduled"
    /\ UNCHANGED <<coordinator_data, self, call>>

(* set_time, lines 297-306, as the job of line 210 *)

SetTimeStart ==
    /\ time_job = "scheduled"
    /\ time_job' = "writing"
    /\ UNCHANGED <<coordinator_data, self, call>>

\* SetTimeEnd of a job that schedules itself again.
SetTimeEnd_Repeating ==
    /\ time_job = "writing"
    /\ time_job' = "scheduled"
    /\ UNCHANGED <<coordinator_data, self, call>>

SetTimeEnd ==
    /\ time_job = "writing"
    /\ time_job' = "done"
    /\ UNCHANGED <<coordinator_data, self, call>>

\* _handle_coordinator_update, lines 226-229
HandleCoordinatorUpdate(snapshots) ==
    /\ time_job # "none"
    /\ coordinator_data' \in snapshots
    /\ self' = ProcessData(self, coordinator_data').self
    /\ UNCHANGED <<call, time_job>>

-----------------------------------------------------------------------------
(* The executor jobs *)

\* SetpointField that, in auto and idle, picks the cooling setpoint.
SetpointField_IdleCool(s) ==
    IF s.hvac_mode = "cool" THEN Some("t_cool")
    ELSE IF s.hvac_mode = "heat" THEN Some("t_heat")
    ELSE IF s.hvac_mode = "auto"
    THEN IF s.hvac_action = Some("heating") THEN Some("t_heat")
         ELSE Some("t_cool")
    ELSE None

\* _set_temperature, lines 278-286: the setpoint field it writes, if any
SetpointField(s) ==
    IF s.hvac_mode = "cool" THEN Some("t_cool")
    ELSE IF s.hvac_mode = "heat" THEN Some("t_heat")
    ELSE IF s.hvac_mode = "auto"
    THEN IF s.hvac_action = Some("cooling") THEN Some("t_cool")
         ELSE IF s.hvac_action = Some("heating") THEN Some("t_heat")
         ELSE None
    ELSE None

\* _set_temperature, line 290: whether it writes hold
WritesHold(s, hold_changed) == hold_changed \/ ~s.hold_set

\* _set_temperature, lines 291-295: the value it writes to hold
HoldValue(s) == IF s.hold_temp THEN 1 ELSE 0

Begin(rec, w) == [rec EXCEPT !.pc = "write", !.events = Append(@, w)]

Raise(rec, result) == [rec EXCEPT !.pc = "done", !.result = result]

\* _set_temperature, lines 288-295: the job after the setpoint part
HoldStage(rec, s) ==
    IF WritesHold(s, rec.hold_changed)
    THEN Begin(rec, Write("hold", Some(HoldValue(s))))
    ELSE [rec EXCEPT !.pc = "resume"]

\* _set_temperature, lines 277-295, up to its first device write
SetTemperatureJob(rec, s) ==
    LET temperature == round_temp(rec.temperature[1])
        field == SetpointField(s)
    IN  IF field # None
        THEN Begin(rec, Write(field[1], Some(temperature)))
        ELSE HoldStage(rec, s)

\* _set_hvac_mode, lines 315-323: the write it makes
SetHvacModeWrite(s, hvac_mode) ==
    IF hvac_mode \in {"off", "auto"}
    THEN Write("tmode", Some(TEMP_MODE_TO_CODE[hvac_mode]))
    ELSE IF hvac_mode = "cool" THEN Write("t_cool", s.target_temperature)
    ELSE Write("t_heat", s.target_temperature)

\* FAN_MODE_TO_CODE.get(fan_mode), line 215
FanCode(fan_mode) ==
    IF fan_mode \in DOMAIN FAN_MODE_TO_CODE
    THEN Some(FAN_MODE_TO_CODE[fan_mode]) ELSE None

\* The executor job of a handler, from its start to its first device write:
\* _set_temperature, _set_hvac_mode, _set_fan_mode, _set_preset_mode. It
\* reads the entity as it is when the job runs.
Job(rec, s) ==
    CASE rec.op = "set_temperature" -> SetTemperatureJob(rec, s)
      [] rec.op = "set_hvac_mode" -> Begin(rec, SetHvacModeWrite(s, rec.value))
      [] rec.op = "set_fan_mode" -> Begin(rec, Write("fmode", FanCode(rec.value)))
      [] rec.op = "set_preset_mode" ->
            Begin(rec, Write("program_mode", Some(PRESET_MODE_TO_CODE[rec.value])))

-----------------------------------------------------------------------------
(* The service handlers, up to their first await *)

\* hass.async_add_executor_job(...): the job is handed to the executor and
\* the handler awaits it.
Submit(rec) == [rec EXCEPT !.pc = "job"]

\* async_set_temperature, lines 263-270
AsyncSetTemperature(rec, s) ==
    IF rec.temperature = None THEN [rec EXCEPT !.pc = "done", !.result = "ok"]
    ELSE Submit(rec)

\* async_set_hvac_mode, line 310
AsyncSetHvacMode(rec, s) == Submit(rec)

\* AsyncSetFanMode without the check of lines 215-216.
AsyncSetFanMode_Unchecked(rec, s) == Submit(rec)

\* async_set_fan_mode, lines 215-217
AsyncSetFanMode(rec, s) ==
    IF FanCode(rec.value) = None
    THEN Raise(rec, "HomeAssistantError")
    ELSE Submit(rec)

\* async_set_preset_mode, lines 327-329
AsyncSetPresetMode(rec, s) ==
    IF rec.value \notin PRESET_MODES
    THEN Raise(rec, "HomeAssistantError")
    ELSE Submit(rec)

Handler(rec, s) ==
    CASE rec.op = "set_temperature" -> AsyncSetTemperature(rec, s)
      [] rec.op = "set_hvac_mode" -> AsyncSetHvacMode(rec, s)
      [] rec.op = "set_fan_mode" -> AsyncSetFanMode(rec, s)
      [] rec.op = "set_preset_mode" -> AsyncSetPresetMode(rec, s)

\* A caller issues a service call; the call waits for the platform's
\* semaphore.
Call(c) ==
    /\ time_job # "none"
    /\ call[c].pc = "idle"
    /\ call[c].n < MaxCalls
    /\ call' = [call EXCEPT ![c].pc = "waiting", ![c].n = @ + 1]
    /\ UNCHANGED <<coordinator_data, self, time_job>>

\* The call is for a service the entity does not support: the host refuses
\* it and no handler runs.
Refuse(c, requests) ==
    /\ call[c].pc = "waiting"
    /\ \E r \in requests :
            /\ ~Offers(self, r.op)
            /\ call' = [call EXCEPT ![c] =
                    [New(call[c].n, r) EXCEPT !.pc = "refused",
                                              !.result = "unsupported"]]
    /\ UNCHANGED <<coordinator_data, self, time_job>>

\* The call gets the semaphore and its handler runs to its first await.
Start(c, requests) ==
    /\ call[c].pc = "waiting"
    /\ Cardinality(Holders) < PARALLEL_UPDATES
    /\ \E r \in requests :
            /\ Offers(self, r.op)
            /\ call' = [call EXCEPT ![c] = Handler(New(call[c].n, r), self)]
    /\ UNCHANGED <<coordinator_data, self, time_job>>

\* The executor runs the job of the call, up to its first device write.
JobStart(c) ==
    /\ call[c].pc = "job"
    /\ call' = [call EXCEPT ![c] = Job(call[c], self)]
    /\ UNCHANGED <<coordinator_data, self, time_job>>

\* HoldWritten that records the policy, whichever it is.
HoldWritten_Policy(s) == [s EXCEPT !.hold_set = s.hold_temp]

\* _set_temperature, line 293, after its write of hold
HoldWritten(s) == IF s.hold_temp THEN [s EXCEPT !.hold_set = TRUE] ELSE s

\* The device write of the call ends well; the executor job goes on to its
\* next write or returns.
WriteDone(c) ==
    /\ call[c].pc = "write"
    /\ LET rec == [call[c] EXCEPT !.events = Append(@, Written)]
           w == call[c].events[Len(call[c].events)]
       IN  IF rec.op = "set_temperature" /\ w.field \in {"t_cool", "t_heat"}
           THEN /\ call' = [call EXCEPT ![c] = HoldStage(rec, self)]
                /\ self' = self
           ELSE IF rec.op = "set_temperature" /\ w.field = "hold"
           THEN /\ call' = [call EXCEPT ![c] = [rec EXCEPT !.pc = "resume"]]
                /\ self' = HoldWritten(self)
           ELSE /\ call' = [call EXCEPT ![c] = [rec EXCEPT !.pc = "resume"]]
                /\ self' = self
    /\ UNCHANGED <<coordinator_data, time_job>>

\* WriteFail of a handler that requests the refresh in a finally clause.
WriteFail_Refreshing(c) ==
    /\ call[c].pc = "write"
    /\ call' = [call EXCEPT ![c] =
            Raise([call[c] EXCEPT !.events = @ \o <<Failed, Refresh>>], "error")]
    /\ UNCHANGED <<coordinator_data, self, time_job>>

\* The device write of the call fails: the job raises, and so does the
\* handler at its await.
WriteFail(c) ==
    /\ call[c].pc = "write"
    /\ call' = [call EXCEPT ![c] =
            Raise([call[c] EXCEPT !.events = Append(@, Failed)], "error")]
    /\ UNCHANGED <<coordinator_data, self, time_job>>

\* Assigned that keeps the temperature as the job rounded it.
Assigned_Rounded(s, rec) ==
    CASE rec.op = "set_temperature" ->
            [s EXCEPT !.target_temperature = Some(round_temp(rec.temperature[1]))]
      [] rec.op = "set_hvac_mode" -> [s EXCEPT !.hvac_mode = rec.value]
      [] rec.op = "set_fan_mode" -> [s EXCEPT !.fan_mode = Some(rec.value)]
      [] rec.op = "set_preset_mode" -> [s EXCEPT !.preset_mode = Some(rec.value)]

\* The attribute a handler assigns after its job, lines 218, 271, 311, 330
Assigned(s, rec) ==
    CASE rec.op = "set_temperature" -> [s EXCEPT !.target_temperature = rec.temperature]
      [] rec.op = "set_hvac_mode" -> [s EXCEPT !.hvac_mode = rec.value]
      [] rec.op = "set_fan_mode" -> [s EXCEPT !.fan_mode = Some(rec.value)]
      [] rec.op = "set_preset_mode" -> [s EXCEPT !.preset_mode = Some(rec.value)]

\* Resume of a handler that publishes before it assigns.
Resume_PublishFirst(c) ==
    /\ call[c].pc = "resume"
    /\ self' = Assigned(self, call[c])
    /\ call' = [call EXCEPT ![c] =
            [call[c] EXCEPT !.pc = "done", !.result = "ok",
                            !.events = @ \o <<Publish, StateSet, Refresh>>]]
    /\ UNCHANGED <<coordinator_data, time_job>>

\* The handler after its job: lines 218-220, 271-273, 311-313, 330-332
Resume(c) ==
    /\ call[c].pc = "resume"
    /\ self' = Assigned(self, call[c])
    /\ call' = [call EXCEPT ![c] =
            [call[c] EXCEPT !.pc = "done", !.result = "ok",
                            !.events = @ \o <<StateSet, Publish, Refresh>>]]
    /\ UNCHANGED <<coordinator_data, time_job>>

\* The call is over: the semaphore is released, the caller has its answer.
Finish(c) ==
    /\ call[c].pc \in {"done", "refused"}
    /\ call' = [call EXCEPT ![c] = Idle(call[c].n)]
    /\ UNCHANGED <<coordinator_data, self, time_job>>

-----------------------------------------------------------------------------
(* Specifications *)

\* One caller and every service, on snapshots that differ in mode, state
\* and hold.
Init == Constructed(ModeSnapshots)

Next ==
    \/ AddedToHass
    \/ HandleCoordinatorUpdate(ModeSnapshots)
    \/ Call(1)
    \/ Refuse(1, Requests)
    \/ Start(1, Requests)
    \/ JobStart(1)
    \/ WriteDone(1)
    \/ WriteFail(1)
    \/ Resume(1)
    \/ Finish(1)

Spec == Init /\ [][Next]_vars

\* Callers of set_temperature side by side, in the modes heat and auto.
InitParallel == Constructed(HeatSnapshots)

NextParallel ==
    \/ AddedToHass
    \/ SetTimeStart
    \/ SetTimeEnd
    \/ HandleCoordinatorUpdate(HeatSnapshots)
    \/ \E c \in Callers : Call(c)
    \/ \E c \in Callers : Start(c, TemperatureRequests)
    \/ \E c \in Callers : JobStart(c)
    \/ \E c \in Callers : WriteDone(c)
    \/ \E c \in Callers : WriteFail(c)
    \/ \E c \in Callers : Resume(c)
    \/ \E c \in Callers : Finish(c)

SpecParallel == InitParallel /\ [][NextParallel]_vars

\* The coordinator alone, delivering every snapshot, the invalid ones too.
InitDecode == Constructed(ValidSnapshots)

NextDecode ==
    \/ AddedToHass
    \/ HandleCoordinatorUpdate(Snapshots)

SpecDecode == InitDecode /\ [][NextDecode]_vars

-----------------------------------------------------------------------------
(* Properties *)

\* The kinds of the events of a call.
Kinds(rec) == {rec.events[i].ev : i \in DOMAIN rec.events}

\* The device fields a call has written or started to write.
FieldsWritten(rec) == {Writes(rec)[i].field : i \in DOMAIN Writes(rec)}

\* The setpoint writes of a call.
SetpointWrites(rec) ==
    SelectSeq(rec.events, LAMBDA e : e.ev = "write" /\ e.field \in {"t_cool", "t_heat"})

\* A step of _handle_coordinator_update: it alone leaves the calls and the
\* set_time job as they are.
CoordinatorStep == UNCHANGED <<call, time_job>>

\* The entity is cooling (heating): in that mode, or in auto and doing it.
Cooling(s) ==
    s.hvac_mode = "cool" \/ (s.hvac_mode = "auto" /\ s.hvac_action = Some("cooling"))

Heating(s) ==
    s.hvac_mode = "heat" \/ (s.hvac_mode = "auto" /\ s.hvac_action = Some("heating"))

\* w is a multiple of half a degree and no further than a quarter from v.
NearestHalf(w, v) == w % 50 = 0 /\ (w - v) \in -25..25

C2_Original == Cardinality(InFlight) <= 1

\* C2 amended: at most one device write of a command handler is in flight;
\* the write of set_time is outside the semaphore and may overlap one.
C2_CommandWritesSerialized ==
    Cardinality({c \in Callers : call[c].pc = "write"}) <= 1

\* One call is writing to the device while another waits for the semaphore.
C2_Witness ==
    \E c1, c2 \in Callers :
        c1 # c2 /\ call[c1].pc = "write" /\ call[c2].pc = "waiting"

\* C3 as stated: when the policy is not hold and no hold change is
\* signalled, set_temperature does not write the device's hold field.
C3_Original ==
    \A c \in Callers :
        call[c].op = "set_temperature" /\ ~call[c].hold_changed /\ ~self.hold_temp
            => "hold" \notin FieldsWritten(call[c])

\* The modes in which the decoder assigns a target temperature.
ModeHasTarget(s) == Cooling(s) \/ Heating(s)

\* C4 as stated: target_temperature is defined only if hvac_mode is cool
\* or heat, or auto with hvac_action heating or cooling.
C4_Original == self.target_temperature # None => ModeHasTarget(self)

\* C4 amended: the decoder assigns target_temperature only if the decoded
\* hvac_mode is cool or heat, or auto with hvac_action heating or cooling;
\* otherwise it leaves the value there is, defined or not.
C4_DecoderAssignsTarget ==
    [][CoordinatorStep /\ self'.target_temperature # self.target_temperature
            => ModeHasTarget(self')]_vars

\* No call was made, the mode is off and the cooling setpoint of an earlier
\* snapshot is still the target.
C4_Witness ==
    /\ \A c \in Callers : call[c].n = 0
    /\ self.hvac_mode = "off" /\ self.hvac_action = None
    /\ self.target_temperature = Some(Reading(0).t_cool)

\* C5 as stated: when a snapshot carries a code outside its table, the
\* decode leaves every decoded field as it was.
C5_Original ==
    [][CoordinatorStep /\ ~ProcessData(self, coordinator_data').ok
            => self' = self]_vars

\* C6: on a CT30 entity every set_preset_mode call is refused: it writes
\* nothing to the device and preset_mode stays as it was, undefined.
C6_PresetRefusedOnCT30 ==
    ~self.is_model_ct80
        => /\ self.preset_mode = None
           /\ \A c \in Callers :
                call[c].op = "set_preset_mode"
                    => call[c].pc = "refused" /\ call[c].events = <<>>

\* set_preset_mode("away") was refused on a CT30 entity.
C6_Witness ==
    \E c \in Callers :
        /\ ~self.is_model_ct80 /\ call[c].pc = "refused"
        /\ call[c].op = "set_preset_mode" /\ call[c].value = "away"

\* C7: set_temperature(v) writes v rounded to the nearest half degree to
\* t_cool when the entity, as its job finds it, is cooling and to t_heat
\* when it is heating, writes no setpoint otherwise (auto and idle, off),
\* never writes two setpoints, and after its job sets target_temperature
\* to v.
C7_SetpointWrite ==
    [][\A c \in Callers :
        LET rec == call'[c]
            W == Writes(rec)
        IN  /\ call[c].pc = "job" /\ rec.pc # "job"
                    /\ rec.op = "set_temperature"
                => /\ Cooling(self)
                        => /\ Len(W) = 1 /\ W[1].field = "t_cool"
                           /\ NearestHalf(W[1].value[1], rec.temperature[1])
                   /\ Heating(self)
                        => /\ Len(W) = 1 /\ W[1].field = "t_heat"
                           /\ NearestHalf(W[1].value[1], rec.temperature[1])
                   /\ ~Cooling(self) /\ ~Heating(self)
                        => FieldsWritten(rec) \cap {"t_cool", "t_heat"} = {}
            /\ rec.op = "set_temperature" => Len(SetpointWrites(rec)) <= 1
            /\ call[c].pc = "resume" /\ rec.pc = "done"
                    /\ rec.op = "set_temperature"
                => self'.target_temperature = rec.temperature]_vars

\* set_temperature ended well in auto and idle: no setpoint was written and
\* the target is the requested temperature.
C7_Witness ==
    \E c \in Callers :
        /\ call[c].op = "set_temperature" /\ call[c].result = "ok"
        /\ call[c].temperature # None
        /\ FieldsWritten(call[c]) \cap {"t_cool", "t_heat"} = {}
        /\ self.hvac_mode = "auto" /\ self.hvac_action = Some("idle")
        /\ self.target_temperature = call[c].temperature

\* C8 as stated: once the hold flag is true it stays true.
C8_Original == [][self.hold_set => self'.hold_set]_vars

\* C8 amended: the hold flag follows the device: the decoder sets it from
\* the snapshot (true exactly if hold is 1); besides that it changes only
\* to true, when set_temperature has written hold = 1.
C8_HoldFollowsDevice ==
    [][self'.hold_set # self.hold_set
        => \/ /\ CoordinatorStep
              /\ self'.hold_set <=> coordinator_data'.hold = 1
           \/ /\ self'.hold_set
              /\ \E c \in Callers :
                    /\ call[c].pc = "write" /\ call'[c].pc = "resume"
                    /\ call[c].events[Len(call[c].events)] = Write("hold", Some(1))]_vars

\* set_temperature has written hold = 1 and ended well, and the flag is
\* false again.
C8_Witness ==
    \E c \in Callers :
        /\ call[c].result = "ok" /\ "hold" \in FieldsWritten(call[c])
        /\ self.hold_temp /\ ~self.hold_set

\* The decode of the snapshot by an entity that has decoded nothing yet.
FreshDecode(s, snapshot) ==
    ProcessData(Blank(s.is_model_ct80, s.hold_temp), snapshot).self

\* C9 as stated: after the decode of a valid snapshot the entity is what
\* any entity of its class is after decoding that snapshot, in every field.
C9_Original ==
    [][CoordinatorStep /\ ProcessData(self, coordinator_data').ok
            => self' = FreshDecode(self, coordinator_data')]_vars

\* C9 amended: after the decode of a valid snapshot every field but
\* target_temperature is what any entity of the class has after decoding
\* that snapshot; so is target_temperature when the snapshot's mode is cool
\* or heat, or auto and heating or cooling, and otherwise it is the value
\* the entity had before.
C9_DecodeReplaces ==
    [][CoordinatorStep /\ ProcessData(self, coordinator_data').ok
            => \A fresh \in {FreshDecode(self, coordinator_data')} :
                    self' = IF ModeHasTarget(fresh) THEN fresh
                            ELSE [fresh EXCEPT !.target_temperature =
                                                  self.target_temperature]]_vars

\* set_fan_mode ended well and a later decode has replaced the fan mode it
\* had set.
C9_Witness ==
    \E c \in Callers :
        /\ call[c].op = "set_fan_mode" /\ call[c].result = "ok"
        /\ self.fan_mode # Some(call[c].value)

\* C10: set_fan_mode with a value that is none of auto, circulate, on
\* raises at once: no device write, no assignment, nothing published, no
\* refresh requested.
C10_UnknownFanMode ==
    [][\A c \in Callers :
        call[c].pc = "waiting" /\ call'[c].op = "set_fan_mode"
            /\ call'[c].value \notin {"auto", "circulate", "on"}
            => /\ call'[c].pc = "done"
               /\ call'[c].result = "HomeAssistantError"
               /\ call'[c].events = <<>>
               /\ self' = self]_vars

\* set_fan_mode("bogus") has raised, on each class of device.
C10_Witness ==
    \E c \in Callers :
        /\ call[c].op = "set_fan_mode" /\ call[c].value = "bogus"
        /\ call[c].result = "HomeAssistantError"

\* C11 as stated: set_hvac_mode makes exactly one device write: for off
\* and auto it writes tmode with the code of the mode and no setpoint; for
\* cool (heat) it writes t_cool (t_heat) with the entity's target
\* temperature, which is a defined temperature, and no tmode.
C11_Original ==
    [][\A c \in Callers :
        call[c].pc = "job" /\ call'[c].pc # "job" /\ call'[c].op = "set_hvac_mode"
            => LET W == Writes(call'[c])
                   hvac_mode == call'[c].value
               IN  /\ Len(W) = 1
                   /\ W[1].value # None
                   /\ hvac_mode = "off" => W[1].field = "tmode" /\ W[1].value[1] = 0
                   /\ hvac_mode = "auto" => W[1].field = "tmode" /\ W[1].value[1] = 3
                   /\ hvac_mode = "cool"
                        => W[1].field = "t_cool" /\ W[1].value = self.target_temperature
                   /\ hvac_mode = "heat"
                        => W[1].field = "t_heat" /\ W[1].value = self.target_temperature]_vars

\* C12: the decode of a snapshot with tmode auto and tstate idle leaves
\* target_temperature as it was before the decode.
C12_AutoIdleKeepsTarget ==
    [][CoordinatorStep /\ coordinator_data'.tmode = 3 /\ coordinator_data'.tstate = 0
            => self'.target_temperature = self.target_temperature]_vars

\* No call was made; a snapshot in auto and idle was decoded and the target
\* is still the heating setpoint of an earlier snapshot.
C12_Witness ==
    /\ \A c \in Callers : call[c].n = 0
    /\ coordinator_data.tmode = 3 /\ coordinator_data.tstate = 0
    /\ self.hvac_mode = "auto" /\ self.hvac_action = Some("idle")
    /\ self.target_temperature = Some(Reading(0).t_heat)

\* C13: two concurrent set_temperature calls never interleave: whenever
\* the job of one call reads the entity or makes a device write (it starts,
\* or a write of it ends), the other call has not begun its handler or has
\* finished it, all its writes made.
C13_SetTemperatureCallsSerialized ==
    [][\A c, d \in Callers :
        c # d /\ call[c].pc \in {"job", "write"} /\ call'[c] # call[c]
            => call[d].pc \notin {"job", "write", "resume"}]_vars

\* The second device write of one call is in flight while another call
\* waits for the semaphore.
C13_Witness ==
    \E c, d \in Callers :
        /\ c # d /\ call[d].pc = "waiting"
        /\ call[c].pc = "write" /\ Len(Writes(call[c])) = 2
        /\ call[c].op = "set_temperature"

\* C14 as stated: whenever hvac_mode is off, hvac_action is absent, in
\* every state, right after a successful set_hvac_mode(off) too.
C14_Original == self.hvac_mode = "off" => self.hvac_action = None

\* C15: the decode of a valid snapshot sets target_temperature from the
\* snapshot by mode: t_cool when tmode is cool, t_heat when tmode is heat,
\* in auto t_cool when tstate is cooling and t_heat when tstate is heating;
\* auto and heating gives hvac_mode auto, hvac_action heating and the target
\* t_heat.
C15_DecodeSetsTarget ==
    [][CoordinatorStep /\ ProcessData(self, coordinator_data').ok
            => \A data \in {coordinator_data'} :
                /\ data.tmode = 2 => self'.target_temperature = Some(data.t_cool)
                /\ data.tmode = 1 => self'.target_temperature = Some(data.t_heat)
                /\ data.tmode = 3 /\ data.tstate = 2
                    => self'.target_temperature = Some(data.t_cool)
                /\ data.tmode = 3 /\ data.tstate = 1
                    => /\ self'.hvac_mode = "auto"
                       /\ self'.hvac_action = Some("heating")
                       /\ self'.target_temperature = Some(data.t_heat)]_vars

\* set_temperature had set another target; the decode of a snapshot in auto
\* and heating with t_heat = 68 and t_cool = 75 has since made it 68.
C15_Witness ==
    \E c \in Callers :
        /\ call[c].op = "set_temperature" /\ call[c].result = "ok"
        /\ call[c].temperature # None
        /\ coordinator_data.tmode = 3 /\ coordinator_data.tstate = 1
        /\ coordinator_data.t_heat = 6800 /\ coordinator_data.t_cool = 7500
        /\ self.hvac_mode = "auto" /\ self.hvac_action = Some("heating")
        /\ self.target_temperature = Some(6800)

\* The fields of the entity the handlers assign after their job.
Optimistic(s) == <<s.target_temperature, s.hvac_mode, s.fan_mode, s.preset_mode>>

\* The events of a call are device writes, each one ended before the next
\* thing happens, and then the events of last.
WritesThen(events, last) ==
    LET n == Len(events) - Len(last)
    IN  /\ n >= 0 /\ n % 2 = 0
        /\ \A i \in 1..n :
                events[i].ev = IF i % 2 = 1 THEN "write" ELSE "written"
        /\ SubSeq(events, n + 1, Len(events)) = last

\* C16: in every successful command the device writes complete, then the
\* local field is set to the requested value, then the state is published,
\* then exactly one refresh is requested; before its writes have completed
\* the handler neither changes the local fields nor publishes.
C16_CommandOrder ==
    [][\A c \in Callers :
        LET rec == call'[c]
        IN  /\ rec.result = "ok" /\ rec.events # <<>>
                => WritesThen(rec.events, <<StateSet, Publish, Refresh>>)
            /\ rec.pc \in {"job", "write", "resume"}
                => Kinds(rec) \cap {"state", "publish", "refresh"} = {}
            /\ call[c].pc \in {"job", "write"} /\ rec # call[c]
                => Optimistic(self') = Optimistic(self)
            /\ call[c].pc = "resume" /\ rec.pc = "done"
                => /\ rec.op = "set_temperature"
                        => self'.target_temperature = rec.temperature
                   /\ rec.op = "set_hvac_mode" => self'.hvac_mode = rec.value
                   /\ rec.op = "set_fan_mode" => self'.fan_mode = Some(rec.value)
                   /\ rec.op = "set_preset_mode"
                        => self'.preset_mode = Some(rec.value)]_vars

\* set_temperature has ended well after two device writes, and so has
\* nothing else than its seven events behind it.
C16_Witness ==
    \E c \in Callers :
        /\ call[c].op = "set_temperature" /\ call[c].result = "ok"
        /\ Len(Writes(call[c])) = 2 /\ Len(call[c].events) = 7
        /\ call[c].events[7] = Refresh

\* C17: the device clock is written only by the one job scheduled when
\* the entity is added: the constructor makes no device write, no handler
\* and no refresh writes the time field, the job writes at most once, and
\* it changes nothing of the entity.
C17_ClockWrittenOnce ==
    /\ time_job = "none" /\ InFlight = {}
    /\ \A c \in Callers : call[c].events = <<>>
    /\ [][/\ time_job' # time_job
                => /\ <<time_job, time_job'>> \in
                        {<<"none", "scheduled">>, <<"scheduled", "writing">>,
                         <<"writing", "done">>}
                   /\ self' = self
          /\ \A c \in Callers : "time" \notin FieldsWritten(call'[c])]_vars

\* The clock was written and, after that, set_temperature has made a
\* device write.
C17_Witness ==
    /\ time_job = "done"
    /\ \E c \in Callers : call[c].result = "ok" /\ Writes(call[c]) # <<>>

\* C18 as stated: in every state fan_mode is in the list of fan modes the
\* entity advertises for its class of device: on and auto on a CT30; on,
\* circulate and auto on a CT80.
C18_Original ==
    self.fan_mode # None
        => self.fan_mode[1] \in
                (IF self.is_model_ct80 THEN {"on", "circulate", "auto"}
                 ELSE {"on", "auto"})

\* C19 as stated: after a successful set_temperature(v) that wrote a
\* setpoint, target_temperature is the value that was written to the
\* device, for every v.
C19_Original ==
    [][\A c \in Callers :
        call[c].pc = "resume" /\ call'[c].pc = "done"
            /\ call'[c].op = "set_temperature" /\ SetpointWrites(call'[c]) # <<>>
            => self'.target_temperature = SetpointWrites(call'[c])[1].value]_vars

\* C19 amended: after a successful set_temperature(v) that wrote a
\* setpoint, target_temperature is v as requested, and the device was
\* written v rounded to the half degree: the two are equal exactly when v
\* is a multiple of half a degree.
C19_TargetIsRequested ==
    [][\A c \in Callers :
        call[c].pc = "resume" /\ call'[c].pc = "done"
            /\ call'[c].op = "set_temperature" /\ SetpointWrites(call'[c]) # <<>>
            => \A w \in {SetpointWrites(call'[c])[1].value} :
                /\ self'.target_temperature = call'[c].temperature
                /\ NearestHalf(w[1], call'[c].temperature[1])
                /\ self'.target_temperature = w
                        <=> call'[c].temperature[1] % 50 = 0]_vars

\* set_temperature(70.25) has ended well: the device was written 70.0 and
\* the target is 70.25.
C19_Witness ==
    \E c \in Callers :
        /\ call[c].op = "set_temperature" /\ call[c].result = "ok"
        /\ call[c].temperature = Some(7025)
        /\ SetpointWrites(call[c]) # <<>>
        /\ SetpointWrites(call[c])[1].value = Some(7000)
        /\ self.target_temperature = Some(7025)

====
